---- MODULE Spec2Model ----
(***************************************************************************)
(* A model of spacy-layout: the conversion of a Docling document into a   *)
(* spaCy Doc with layout spans (layout.py), the derived views get_pages   *)
(* and get_heading, the batch entry point pipe, the msgpack codec hooks   *)
(* and the bounding-box normalisation (util.py).                          *)
(***************************************************************************)
EXTENDS Integers, Sequences, FiniteSets, TLC

(***************************************************************************)
(* Bounds of the model.                                                    *)
(***************************************************************************)
MaxItems == 3
MaxLayoutItems == 2

(***************************************************************************)
(* Python values.  None and an optional value; a dict that keeps its       *)
(* insertion order is a sequence of <<key, value>> pairs with distinct     *)
(* keys.                                                                   *)
(***************************************************************************)
None == <<>>
Some(x) == <<x>>

SeqsUpTo(S, n) == UNION {[1..m -> S] : m \in 0..n}

DictHas(d, key) == \E i \in 1..Len(d) : d[i][1] = key

DictGet(d, key) == d[CHOOSE i \in 1..Len(d) : d[i][1] = key][2]

\* d[key] = value: an existing key keeps its place, a new key goes last
DictSet(d, key, value) ==
    IF DictHas(d, key)
    THEN [i \in 1..Len(d) |-> IF d[i][1] = key THEN <<key, value>> ELSE d[i]]
    ELSE Append(d, <<key, value>>)

(***************************************************************************)
(* types.py: the layout dataclasses.  A dataclass instance is a record     *)
(* that carries its class in the field cls.                                *)
(***************************************************************************)
PageLayout(page_no, width, height) ==
    [cls |-> "PageLayout", page_no |-> page_no, width |-> width, height |-> height]

DocLayout(pages) == [cls |-> "DocLayout", pages |-> pages]

SpanLayout(x, y, width, height, page_no) ==
    [cls |-> "SpanLayout", x |-> x, y |-> y, width |-> width,
     height |-> height, page_no |-> page_no]

(***************************************************************************)
(* layout.py: module constants and the defaults of __init__.               *)
(***************************************************************************)
TABLE_PLACEHOLDER == "TABLE"

TABLE_ITEM_LABELS == {"table", "document_index"}

DefaultSeparator == "\n\n"

DefaultHeadings == {"section_header", "page_header", "title"}

(***************************************************************************)
(* util.py: get_bounding_box.  Python floats are binary floating point:    *)
(* every subtraction returns the representable number nearest to the exact *)
(* difference, ties to the even mantissa.  The model keeps that rounding   *)
(* with a mantissa of MantissaBits bits (53 in the program) over integer   *)
(* magnitudes.                                                             *)
(***************************************************************************)
MantissaBits == 7

RECURSIVE Pow2(_)
Pow2(e) == IF e = 0 THEN 1 ELSE 2 * Pow2(e - 1)

\* the exponent of the unit in the last place of the magnitude a
RECURSIVE UlpExp(_, _)
UlpExp(a, e) == IF a < Pow2(MantissaBits + e) THEN e ELSE UlpExp(a, e + 1)

RoundMagnitude(a) ==
    LET u == Pow2(UlpExp(a, 0))
        q == a \div u
        r == a % u
    IN  IF 2 * r < u THEN q * u
        ELSE IF 2 * r > u THEN (q + 1) * u
        ELSE IF q % 2 = 0 THEN q * u ELSE (q + 1) * u

\* the float nearest to the exact number n
Fl(n) == IF n < 0 THEN 0 - RoundMagnitude(0 - n) ELSE RoundMagnitude(n)

IsFloat(n) == Fl(n) = n

\* a - b on floats
FloatSub(a, b) == Fl(a - b)

BoundingBox(l, t, r, b, origin) ==
    [l |-> l, t |-> t, r |-> r, b |-> b, coord_origin |-> origin]

get_bounding_box_swapped(bbox, page_height) ==
    LET is_bottom == bbox.coord_origin = "BOTTOMLEFT"
        y == IF is_bottom THEN FloatSub(page_height, bbox.t) ELSE bbox.t
        height == IF is_bottom THEN FloatSub(bbox.b, bbox.t) ELSE FloatSub(bbox.b, bbox.t)
        width == FloatSub(bbox.r, bbox.l)
    IN  <<bbox.l, y, width, height>>

get_bounding_box(bbox, page_height) ==
    LET is_bottom == bbox.coord_origin = "BOTTOMLEFT"
        y == IF is_bottom THEN FloatSub(page_height, bbox.t) ELSE bbox.t
        height == IF is_bottom THEN FloatSub(bbox.t, bbox.b) ELSE FloatSub(bbox.b, bbox.t)
        width == FloatSub(bbox.r, bbox.l)
    IN  <<bbox.l, y, width, height>>

(***************************************************************************)
(* The collaborators of the conversion.  The tokenizer (nlp.pipe with all  *)
(* pipes disabled) maps a text to its tokens, each with its text and its   *)
(* trailing-whitespace flag; only the empty text has no token, whitespace  *)
(* after a word is that word's flag, other whitespace is a token.          *)
(***************************************************************************)
Token(text, ws) == [text |-> text, whitespace |-> ws]

Texts == {"", "a", "a b", "b ", "\n\n"}

Tokenize(text) ==
    CASE text = "" -> <<>>
      [] text = "a" -> <<Token("a", FALSE)>>
      [] text = "a b" -> <<Token("a", TRUE), Token("b", FALSE)>>
      [] text = "b " -> <<Token("b", TRUE)>>
      [] text = "\n\n" -> <<Token("\n\n", FALSE)>>
      [] OTHER -> <<Token(text, FALSE)>>

\* the tabular export of a table item
DataFrame(columns, data) == [cls |-> "DataFrame", columns |-> columns, data |-> data]

TableDfs == {DataFrame(<<"a">>, <<1>>), DataFrame(<<"a", "b">>, <<1, 2>>)}

\* display_table: a string, or a function of the table's DataFrame, here one
\* of two functions of the caller named by a string
DisplayStr(s) == [callable |-> FALSE, value |-> s]

DisplayFn(name) == [callable |-> TRUE, value |-> name]

DisplayFns == {"by_columns", "fixed"}

CallDisplay(name, df) ==
    IF name = "by_columns"
    THEN IF Len(df.columns) = 1 THEN "" ELSE "a b"
    ELSE "b "

\* a node of the document tree: a text item, a table item or another node
TextItem(ref, label, text, prov) ==
    [self_ref |-> ref, kind |-> "text", label |-> label, text |-> text,
     prov |-> prov, df |-> None]

TableItem(ref, label, df, prov) ==
    [self_ref |-> ref, kind |-> "table", label |-> label, text |-> "",
     prov |-> prov, df |-> Some(df)]

GroupNode(ref) ==
    [self_ref |-> ref, kind |-> "group", label |-> "unspecified", text |-> "",
     prov |-> <<>>, df |-> None]

Prov(page_no, bbox) == [page_no |-> page_no, bbox |-> bbox]

\* a page of the document: its number and its size, None when unknown
Size(width, height) == [width |-> width, height |-> height]

Page(page_no, size) == [page_no |-> page_no, size |-> size]

VARIABLES
    \* the spaCyLayout instance: self.sep, self.headings, self.display_table
    sep, headings, display_table,
    \* the DoclingDocument handed to _result_to_doc: [nodes, pages]
    document,
    \* where the conversion stands, and the exception it raised
    pc, error,
    \* locals of _result_to_doc and _texts_to_doc
    inputs, pages, words, spaces, span_data, token_idx,
    \* the Doc returned: [words, spaces, spans, layout]
    doc,
    \* the last results of the getters get_pages and get_heading (of the
    \* span at the place index of the group)
    pages_out, heading_out

VARIABLES
    \* pipe: the sources, whether they can be iterated once only, as_tuples,
    \* the converter's batch size, the places of the two generators over the
    \* sources, the results convert_all holds, what pipe yielded, its state
    sources, single_pass, as_tuples, batch_size, cursor, pending, yielded, pipe_pc

VARIABLES
    \* the codec hooks: the value handed to an encoder (original: as it was
    \* when handed over), its encoded form, the value decoded from it, and
    \* the hooks applied so far
    value, original, encoded, decoded, applied

VARIABLES
    \* get_bounding_box: its arguments and its result
    bbox, page_height, rect

VARIABLES
    \* the spaCyLayout instances constructed so far, in order; the extension
    \* attributes registered on Doc and on Span, which all instances share;
    \* the instance (its place in instances) whose conversion the conversion
    \* state is; the last read of a derived attribute of the converted Doc
    instances, doc_extensions, span_extensions, converted_by, view_out

instVars == <<instances, doc_extensions, span_extensions, converted_by, view_out>>

pipeVars == <<sources, single_pass, as_tuples, batch_size, cursor, pending, yielded,
              pipe_pc>>

codecVars == <<value, original, encoded, decoded, applied>>

bboxVars == <<bbox, page_height, rect>>

convVars == <<sep, headings, display_table, document, pc, error, inputs, pages,
              words, spaces, span_data, token_idx, doc, pages_out, heading_out>>

Truthy(s) == s # None /\ s[1] # ""

Ok(v) == [err |-> "", val |-> v]

Raise(e) == [err |-> e, val |-> None]

NoDoc == [words |-> <<>>, spaces |-> <<>>, spans |-> <<>>, layout |-> None]

(***************************************************************************)
(* layout.py: _result_to_doc, lines 133-157: the page dict and the inputs. *)
(***************************************************************************)
RECURSIVE DictFromPairs(_, _)
DictFromPairs(pairs, acc) ==
    IF pairs = <<>> THEN acc
    ELSE DictFromPairs(Tail(pairs), DictSet(acc, Head(pairs)[1], Head(pairs)[2]))

\* {page.page_no: PageLayout(...) for _, page in document.pages.items()}
PageDict(doc_pages) ==
    DictFromPairs(
        [i \in 1..Len(doc_pages) |->
            LET page == doc_pages[i]
            IN  <<page.page_no,
                  PageLayout(page.page_no,
                             IF page.size # None THEN page.size[1].width ELSE 0,
                             IF page.size # None THEN page.size[1].height ELSE 0)>>],
        <<>>)

\* the text a table item is tokenized as
TableText(display, item) ==
    IF ~display.callable THEN display.value ELSE CallDisplay(display.value, item.df[1])

RECURSIVE SelectInputs(_, _)
SelectInputs(nodes, display) ==
    IF nodes = <<>> THEN <<>>
    ELSE LET node == Head(nodes)
             rest == SelectInputs(Tail(nodes), display)
         IN  IF node.kind = "text"
             THEN IF node.text = "" THEN rest ELSE <<<<node.text, node>>>> \o rest
             ELSE IF node.kind = "table"
             THEN <<<<TableText(display, node), node>>>> \o rest
             ELSE rest

(***************************************************************************)
(* layout.py: _texts_to_doc, the body of the loop, lines 175-184.          *)
(***************************************************************************)
SeparatorSpaces_flag_kept(spaces1) == Append(spaces1, FALSE)

\* spaces[-1] = False; spaces.append(False)
SeparatorSpaces(spaces1) ==
    Append([spaces1 EXCEPT ![Len(spaces1)] = FALSE], FALSE)

NextTokenIdx_separator_not_counted(idx, n, separator) == idx + n

\* token_idx += len(span_doc) + (1 if self.sep else 0)
NextTokenIdx(idx, n, separator) == idx + n + (IF Truthy(separator) THEN 1 ELSE 0)

(***************************************************************************)
(* layout.py: _get_span_layout, lines 199-209.                             *)
(***************************************************************************)
_get_span_layout_last_prov(item, page_dict) ==
    IF item.prov # <<>>
    THEN LET prov == item.prov[Len(item.prov)]
         IN  IF ~DictHas(page_dict, prov.page_no) THEN Raise("KeyError")
             ELSE LET page == DictGet(page_dict, prov.page_no)
                      box == get_bounding_box(prov.bbox, page.height)
                  IN  IF page.width # 0 /\ page.height # 0
                      THEN Ok(Some(SpanLayout(box[1], box[2], box[3], box[4],
                                              prov.page_no)))
                      ELSE Ok(None)
    ELSE Ok(None)

_get_span_layout_page_not_looked_up(item, page_dict) ==
    IF item.prov # <<>>
    THEN LET prov == item.prov[1]
             height == IF DictHas(page_dict, prov.page_no)
                       THEN DictGet(page_dict, prov.page_no).height ELSE 0
             box == get_bounding_box(prov.bbox, height)
         IN  Ok(Some(SpanLayout(box[1], box[2], box[3], box[4], prov.page_no)))
    ELSE Ok(None)

_get_span_layout(item, page_dict) ==
    IF item.prov # <<>>
    THEN LET prov == item.prov[1]
         IN  IF ~DictHas(page_dict, prov.page_no) THEN Raise("KeyError")
             ELSE LET page == DictGet(page_dict, prov.page_no)
                      box == get_bounding_box(prov.bbox, page.height)
                  IN  IF page.width # 0 /\ page.height # 0
                      THEN Ok(Some(SpanLayout(box[1], box[2], box[3], box[4],
                                              prov.page_no)))
                      ELSE Ok(None)
    ELSE Ok(None)

(***************************************************************************)
(* layout.py: _texts_to_doc, lines 186-193: the spans of the group.        *)
(***************************************************************************)
Span(start, end, label, id, layout, data) ==
    [start |-> start, end |-> end, label |-> label, id |-> id,
     layout |-> layout, data |-> data]

SpanLayouts(data, page_dict) ==
    [i \in 1..Len(data) |-> _get_span_layout(data[i][1], page_dict)]

MakeSpans(data, page_dict) ==
    [i \in 1..Len(data) |->
        LET item == data[i][1]
        IN  Span(data[i][2], data[i][3], item.label, i - 1,
                 _get_span_layout(item, page_dict).val,
                 IF item.label \in TABLE_ITEM_LABELS THEN item.df ELSE None)]

(***************************************************************************)
(* layout.py: get_pages, lines 211-219.                                    *)
(***************************************************************************)
RECURSIVE PageSpansFrom(_, _)
PageSpansFrom(spans, page_spans) ==
    IF spans = <<>> THEN Ok(page_spans)
    ELSE LET span_layout == Head(spans).layout
         IN  IF span_layout = None THEN Raise("AttributeError")
             ELSE IF ~DictHas(page_spans, span_layout[1].page_no) THEN Raise("KeyError")
             ELSE PageSpansFrom(
                      Tail(spans),
                      DictSet(page_spans, span_layout[1].page_no,
                              Append(DictGet(page_spans, span_layout[1].page_no),
                                     Head(spans))))

get_pages(d) ==
    LET layout == d.layout[1]
        pgs == DictFromPairs(
                   [i \in 1..Len(layout.pages) |->
                       <<layout.pages[i].page_no, layout.pages[i]>>], <<>>)
        empty == DictFromPairs(
                     [i \in 1..Len(layout.pages) |->
                         <<layout.pages[i].page_no, <<>>>>], <<>>)
        page_spans == PageSpansFrom(d.spans, empty)
    IN  IF page_spans.err # "" THEN page_spans
        ELSE Ok([i \in 1..Len(page_spans.val) |->
                    <<DictGet(pgs, page_spans.val[i][1]), page_spans.val[i][2]>>])

(***************************************************************************)
(* layout.py: get_heading, lines 221-228.                                  *)
(***************************************************************************)
Reverse(s) == [i \in 1..Len(s) |-> s[Len(s) + 1 - i]]

RECURSIVE FirstHeading(_, _)
FirstHeading(candidates, hs) ==
    IF candidates = <<>> THEN None
    ELSE IF Head(candidates).label \in hs THEN Some(Head(candidates))
    ELSE FirstHeading(Tail(candidates), hs)

Candidates_not_reversed(spans, span) == SubSeq(spans, 1, span.id)

\* spans[: span.id][::-1]
Candidates(spans, span) == Reverse(SubSeq(spans, 1, span.id))

get_heading(span, d, hs) ==
    IF span.label \notin hs
    THEN FirstHeading(Candidates(d.spans, span), hs)
    ELSE None

(***************************************************************************)
(* The steps of a conversion, layout(document).                            *)
(***************************************************************************)
\* _result_to_doc, lines 133-157, up to the call of _texts_to_doc
ResultToDoc ==
    /\ pc = "call"
    /\ pages' = PageDict(document.pages)
    /\ inputs' = SelectInputs(document.nodes, display_table)
    /\ pc' = "texts_to_doc"
    /\ UNCHANGED <<sep, headings, display_table, document, error, words, spaces,
                   span_data, token_idx, doc, pages_out, heading_out>>
    /\ UNCHANGED <<pipeVars, codecVars, bboxVars, instVars>>

\* _texts_to_doc, lines 174-184: one pass of the loop over the inputs
TextsToDocStep ==
    /\ pc = "texts_to_doc"
    /\ Len(span_data) < Len(inputs)
    /\ LET text == inputs[Len(span_data) + 1][1]
           item == inputs[Len(span_data) + 1][2]
           span_doc == Tokenize(text)
           words1 == words \o [i \in 1..Len(span_doc) |-> span_doc[i].text]
           spaces1 == spaces \o [i \in 1..Len(span_doc) |-> span_doc[i].whitespace]
           end == token_idx + Len(span_doc)
       IN  IF Truthy(sep) /\ spaces1 = <<>>
           THEN \* spaces[-1] = False on an empty list
                /\ pc' = "raised"
                /\ error' = "IndexError"
                /\ words' = Append(words1, sep[1])
                /\ spaces' = spaces1
                /\ UNCHANGED <<span_data, token_idx>>
           ELSE /\ words' = IF Truthy(sep) THEN Append(words1, sep[1]) ELSE words1
                /\ spaces' = IF Truthy(sep) THEN SeparatorSpaces(spaces1) ELSE spaces1
                /\ span_data' = Append(span_data, <<item, token_idx, end>>)
                /\ token_idx' = NextTokenIdx(token_idx, Len(span_doc), sep)
                /\ UNCHANGED <<pc, error>>
    /\ UNCHANGED <<sep, headings, display_table, document, inputs, pages, doc,
                   pages_out, heading_out>>
    /\ UNCHANGED <<pipeVars, codecVars, bboxVars, instVars>>

\* _texts_to_doc, lines 185-197, and _result_to_doc, lines 159-161
FinishDoc ==
    /\ pc = "texts_to_doc"
    /\ Len(span_data) = Len(inputs)
    /\ IF \E i \in 1..Len(span_data) : SpanLayouts(span_data, pages)[i].err # ""
       THEN \* pages[prov.page_no] on a page the document does not list
            /\ pc' = "raised"
            /\ error' = "KeyError"
            /\ UNCHANGED doc
       ELSE /\ doc' = [words |-> words, spaces |-> spaces,
                       spans |-> MakeSpans(span_data, pages),
                       layout |-> Some(DocLayout([i \in 1..Len(pages) |-> pages[i][2]]))]
            /\ pc' = "done"
            /\ UNCHANGED error
    /\ UNCHANGED <<sep, headings, display_table, document, inputs, pages, words,
                   spaces, span_data, token_idx, pages_out, heading_out>>
    /\ UNCHANGED <<pipeVars, codecVars, bboxVars, instVars>>

\* doc._.pages
GetPages ==
    /\ pc = "done"
    /\ pages_out' = Some(get_pages(doc))
    /\ UNCHANGED <<sep, headings, display_table, document, pc, error, inputs, pages,
                   words, spaces, span_data, token_idx, doc, heading_out>>
    /\ UNCHANGED <<pipeVars, codecVars, bboxVars, instVars>>

\* span._.heading, for a span of the layout group
GetHeading ==
    /\ pc = "done"
    /\ \E i \in 1..Len(doc.spans) :
           heading_out' = Some([index |-> i, span |-> doc.spans[i],
                                heading |-> get_heading(doc.spans[i], doc, headings)])
    /\ UNCHANGED <<sep, headings, display_table, document, pc, error, inputs, pages,
                   words, spaces, span_data, token_idx, doc, pages_out>>
    /\ UNCHANGED <<pipeVars, codecVars, bboxVars, instVars>>

ConvNext == ResultToDoc \/ TextsToDocStep \/ FinishDoc \/ GetPages \/ GetHeading

(***************************************************************************)
(* layout.py: __init__, lines 58-80.  An instance keeps its separator, its *)
(* attribute names, its heading labels and its table display; it registers *)
(* its extension attributes on the classes Doc and Span, with force=True:  *)
(* a name that is registered already is registered anew.  An extension is  *)
(* a default value or a getter, here a bound method of an instance.        *)
(***************************************************************************)
\* attrs.get(key, default) of the dict handed to __init__
AttrGet(attrs, key, default) == IF DictHas(attrs, key) THEN DictGet(attrs, key) ELSE default

Attrs(attrs) ==
    [doc_layout |-> AttrGet(attrs, "doc_layout", "layout"),
     doc_pages |-> AttrGet(attrs, "doc_pages", "pages"),
     doc_tables |-> AttrGet(attrs, "doc_tables", "tables"),
     doc_markdown |-> AttrGet(attrs, "doc_markdown", "markdown"),
     span_layout |-> AttrGet(attrs, "span_layout", "layout"),
     span_heading |-> AttrGet(attrs, "span_heading", "heading"),
     span_data |-> AttrGet(attrs, "span_data", "data"),
     span_group |-> AttrGet(attrs, "span_group", "layout")]

spaCyLayout(separator, attrs, hs, display) ==
    [sep |-> separator, attrs |-> Attrs(attrs), headings |-> hs,
     display_table |-> display]

DefaultExtension == [getter |-> None]

GetterExtension(self, method) == [getter |-> Some([self |-> self, method |-> method])]

\* lines 74-77, by the instance at the place self
SetDocExtensions(registered, self, attrs) ==
    DictSet(DictSet(DictSet(DictSet(registered,
        attrs.doc_layout, DefaultExtension),
        attrs.doc_pages, GetterExtension(self, "get_pages")),
        attrs.doc_tables, GetterExtension(self, "get_tables")),
        attrs.doc_markdown, DefaultExtension)

\* lines 78-80
SetSpanExtensions(registered, self, attrs) ==
    DictSet(DictSet(DictSet(registered,
        attrs.span_layout, DefaultExtension),
        attrs.span_data, DefaultExtension),
        attrs.span_heading, GetterExtension(self, "get_heading"))

\* the process after the construction of one instance, whose conversion the
\* conversion state is
SingleInstance ==
    /\ instances = <<spaCyLayout(sep, <<>>, headings, display_table)>>
    /\ doc_extensions = SetDocExtensions(<<>>, 1, Attrs(<<>>))
    /\ span_extensions = SetSpanExtensions(<<>>, 1, Attrs(<<>>))
    /\ converted_by = 1
    /\ view_out = None

(***************************************************************************)
(* Reading an extension attribute, obj._.name: a name that is not          *)
(* registered is an AttributeError, a getter is called with the object, a  *)
(* default is the value the object keeps under the name, None without one. *)
(* The Doc of the conversion state keeps its values under the attribute    *)
(* names of the instance that converted it (lines 159-160, 190-196).       *)
(***************************************************************************)
DocUserData ==
    LET attrs == instances[converted_by].attrs
    IN  DictSet(DictSet(<<>>, attrs.doc_layout, doc.layout),
                attrs.doc_markdown, Some("markdown"))

SpanUserData(span) ==
    LET attrs == instances[converted_by].attrs
        with_layout == DictSet(<<>>, attrs.span_layout, span.layout)
    IN  IF span.label \in TABLE_ITEM_LABELS
        THEN DictSet(with_layout, attrs.span_data, span.data)
        ELSE with_layout

\* doc.spans: the span groups by name
DocSpans == <<<<instances[converted_by].attrs.span_group, doc.spans>>>>

\* obj._.get(name) inside a getter: of a name registered with a default (no
\* instance of the model registers a getter under a name another gives to a
\* default)
ExtensionValue(registered, user_data, name) ==
    IF ~DictHas(registered, name) THEN Raise("AttributeError")
    ELSE Ok(IF DictHas(user_data, name) THEN DictGet(user_data, name) ELSE None)

\* get_pages, lines 211-219, as the method of the instance at the place self
get_pages_of(self) ==
    LET attrs == instances[self].attrs
        layout == ExtensionValue(doc_extensions, DocUserData, attrs.doc_layout)
    IN  IF layout.err # "" THEN layout
        ELSE IF layout.val = None THEN Raise("AttributeError")
        ELSE IF ~DictHas(DocSpans, attrs.span_group) THEN Raise("KeyError")
        ELSE LET spans == DictGet(DocSpans, attrs.span_group)
                 read == [i \in 1..Len(spans) |->
                             ExtensionValue(span_extensions, SpanUserData(spans[i]),
                                            attrs.span_layout)]
             IN  IF \E i \in 1..Len(spans) : read[i].err # ""
                 THEN Raise("AttributeError")
                 ELSE get_pages([layout |-> layout.val,
                                 spans |-> [i \in 1..Len(spans) |->
                                     [spans[i] EXCEPT !.layout = read[i].val]]])

\* get_heading, lines 221-228
get_heading_of(self, span) ==
    LET attrs == instances[self].attrs
    IN  IF ~DictHas(DocSpans, attrs.span_group) THEN Raise("KeyError")
        ELSE Ok(get_heading(span, [spans |-> DictGet(DocSpans, attrs.span_group)],
                            instances[self].headings))

IsTable(span) == span.label \in TABLE_ITEM_LABELS

\* get_tables, lines 230-236
get_tables_of(self) ==
    LET attrs == instances[self].attrs
    IN  IF ~DictHas(DocSpans, attrs.span_group) THEN Raise("KeyError")
        ELSE Ok(SelectSeq(DictGet(DocSpans, attrs.span_group), IsTable))

\* doc._.name of a Doc extension, span._.name of a Span extension
ReadDocExtension(name) ==
    IF ~DictHas(doc_extensions, name) THEN Raise("AttributeError")
    ELSE LET getter == DictGet(doc_extensions, name).getter
         IN  IF getter = None THEN ExtensionValue(doc_extensions, DocUserData, name)
             ELSE IF getter[1].method = "get_pages" THEN get_pages_of(getter[1].self)
             ELSE get_tables_of(getter[1].self)

ReadSpanExtension(span, name) ==
    IF ~DictHas(span_extensions, name) THEN Raise("AttributeError")
    ELSE LET getter == DictGet(span_extensions, name).getter
         IN  IF getter = None
             THEN ExtensionValue(span_extensions, SpanUserData(span), name)
             ELSE get_heading_of(getter[1].self, span)

(***************************************************************************)
(* Several instances in one process: constructions, conversions, and reads *)
(* of the derived attributes of the converted Doc.                         *)
(***************************************************************************)
MaxInstances == 2

AttrChoices ==
    {<<>>,
     <<<<"span_group", "docling">>>>,
     <<<<"span_heading", "section">>, <<"doc_pages", "page_list">>,
       <<"doc_tables", "table_list">>>>}

HeadingChoices == {DefaultHeadings, {"list_item"}}

InstanceChoices ==
    {spaCyLayout(Some(DefaultSeparator), attrs, hs, DisplayStr(TABLE_PLACEHOLDER)) :
        attrs \in AttrChoices, hs \in HeadingChoices}

\* spaCyLayout(nlp, attrs=..., headings=...)
NewInstance ==
    /\ pc \in {"call", "done", "raised"}
    /\ Len(instances) < MaxInstances
    /\ \E instance \in InstanceChoices :
           /\ instances' = Append(instances, instance)
           /\ doc_extensions'
                  = SetDocExtensions(doc_extensions, Len(instances) + 1, instance.attrs)
           /\ span_extensions'
                  = SetSpanExtensions(span_extensions, Len(instances) + 1, instance.attrs)
    /\ UNCHANGED <<converted_by, view_out>>
    /\ UNCHANGED <<convVars, pipeVars, codecVars, bboxVars>>

\* doc._.pages, under the name the converting instance gave the attribute
ReadPages ==
    /\ pc = "done"
    /\ view_out' = Some([attr |-> "pages", index |-> 0,
                         result |-> ReadDocExtension(
                                        instances[converted_by].attrs.doc_pages)])
    /\ UNCHANGED <<instances, doc_extensions, span_extensions, converted_by>>
    /\ UNCHANGED <<convVars, pipeVars, codecVars, bboxVars>>

\* doc._.tables
ReadTables ==
    /\ pc = "done"
    /\ view_out' = Some([attr |-> "tables", index |-> 0,
                         result |-> ReadDocExtension(
                                        instances[converted_by].attrs.doc_tables)])
    /\ UNCHANGED <<instances, doc_extensions, span_extensions, converted_by>>
    /\ UNCHANGED <<convVars, pipeVars, codecVars, bboxVars>>

\* span._.heading, for a span of the layout group
ReadHeading ==
    /\ pc = "done"
    /\ \E i \in 1..Len(doc.spans) :
           view_out' = Some([attr |-> "heading", index |-> i,
                            result |-> ReadSpanExtension(
                                           doc.spans[i],
                                           instances[converted_by].attrs.span_heading)])
    /\ UNCHANGED <<instances, doc_extensions, span_extensions, converted_by>>
    /\ UNCHANGED <<convVars, pipeVars, codecVars, bboxVars>>

(***************************************************************************)
(* The documents and instances of the model.                               *)
(***************************************************************************)
WithRefs(items) == [i \in 1..Len(items) |-> [items[i] EXCEPT !.self_ref = i]]

PageSize == Size(600, 1000)

BoxA == BoundingBox(100, 200, 400, 50, "BOTTOMLEFT")

BoxB == BoundingBox(100, 250, 400, 400, "TOPLEFT")

OnePage == <<Page(1, Some(PageSize))>>

ConvStart(instance_sep, instance_headings, instance_display, d) ==
    /\ sep = instance_sep
    /\ headings = instance_headings
    /\ display_table = instance_display
    /\ document = d
    /\ pc = "call"
    /\ error = ""
    /\ inputs = <<>>
    /\ pages = <<>>
    /\ words = <<>>
    /\ spaces = <<>>
    /\ span_data = <<>>
    /\ token_idx = 0
    /\ doc = NoDoc
    /\ pages_out = None
    /\ heading_out = None

\* texts, tables and separators: the token stream and the span offsets
AlignItems ==
    {TextItem(0, "text", t, <<>>) : t \in Texts}
    \cup {TableItem(0, "table", df, <<>>) : df \in TableDfs}

InitAlign ==
    \E s \in {None, Some(""), Some(DefaultSeparator)},
       dt \in {DisplayStr(TABLE_PLACEHOLDER), DisplayStr("")}
               \cup {DisplayFn(f) : f \in DisplayFns},
       items \in SeqsUpTo(AlignItems, MaxItems) :
        ConvStart(s, DefaultHeadings, dt,
                  [nodes |-> WithRefs(items), pages |-> OnePage])

\* labels and heading sets: the heading lookup
HeadingItems ==
    {TextItem(0, l, "a", <<>>) : l \in {"text", "section_header", "title", "list_item"}}
    \cup {TableItem(0, "table", DataFrame(<<"a">>, <<1>>), <<>>), GroupNode(0)}

InitHeading ==
    \E hs \in {DefaultHeadings, {"list_item"}},
       items \in SeqsUpTo(HeadingItems, MaxItems) :
        ConvStart(Some(DefaultSeparator), hs, DisplayStr(TABLE_PLACEHOLDER),
                  [nodes |-> WithRefs(items), pages |-> OnePage])

\* provenance and page sizes: the span layouts and the pages
ProvChoices ==
    {<<>>, <<Prov(1, BoxA)>>, <<Prov(2, BoxB)>>, <<Prov(1, BoxA), Prov(2, BoxB)>>,
     <<Prov(2, BoxB), Prov(1, BoxA)>>, <<Prov(3, BoxA)>>}

LayoutItems == {TextItem(0, "text", "a", p) : p \in ProvChoices}

SizeChoices ==
    {None, Some(Size(0, PageSize.height)), Some(Size(PageSize.width, 0)),
     Some(PageSize)}

PageChoices ==
    {<<Page(1, s)>> : s \in SizeChoices}
    \cup {<<Page(1, s), Page(2, t)>> : s \in SizeChoices, t \in SizeChoices}
    \cup {<<Page(2, s), Page(1, t)>> : s \in SizeChoices, t \in SizeChoices}

InitLayout ==
    \E ps \in PageChoices, items \in SeqsUpTo(LayoutItems, MaxLayoutItems) :
        ConvStart(Some(DefaultSeparator), DefaultHeadings,
                  DisplayStr(TABLE_PLACEHOLDER),
                  [nodes |-> WithRefs(items), pages |-> ps])

\* texts with and without text, tables of both table labels, and a node that
\* is neither: the selection of the items
SelectItems ==
    {TextItem(0, "text", "", <<>>), TextItem(0, "title", "a b", <<>>),
     TextItem(0, "list_item", "a", <<>>),
     TableItem(0, "table", DataFrame(<<"a">>, <<1>>), <<>>),
     TableItem(0, "document_index", DataFrame(<<"a", "b">>, <<1, 2>>), <<>>),
     GroupNode(0)}

InitSelect ==
    \E s \in {None, Some(DefaultSeparator)},
       dt \in {DisplayStr(TABLE_PLACEHOLDER)} \cup {DisplayFn(f) : f \in DisplayFns},
       items \in SeqsUpTo(SelectItems, MaxItems) :
        ConvStart(s, DefaultHeadings, dt,
                  [nodes |-> WithRefs(items), pages |-> OnePage])

\* documents whose items all have a place on the one page
Placed(label) == TextItem(0, label, "a", <<Prov(1, BoxA)>>)

ViewDocuments ==
    {[nodes |-> WithRefs(<<Placed("title"), Placed("list_item"), Placed("text")>>),
      pages |-> OnePage],
     [nodes |-> WithRefs(<<TableItem(0, "table", DataFrame(<<"a">>, <<1>>),
                                     <<Prov(1, BoxB)>>),
                           Placed("text")>>),
      pages |-> OnePage],
     [nodes |-> <<>>, pages |-> OnePage]}

\* layout(document), by the instance at the place self: a new conversion
Call ==
    /\ pc \in {"done", "raised"}
    /\ \E self \in 1..Len(instances), d \in ViewDocuments :
           /\ converted_by' = self
           /\ sep' = instances[self].sep
           /\ headings' = instances[self].headings
           /\ display_table' = instances[self].display_table
           /\ document' = d
    /\ pc' = "call"
    /\ error' = ""
    /\ inputs' = <<>>
    /\ pages' = <<>>
    /\ words' = <<>>
    /\ spaces' = <<>>
    /\ span_data' = <<>>
    /\ token_idx' = 0
    /\ doc' = NoDoc
    /\ pages_out' = None
    /\ heading_out' = None
    /\ view_out' = None
    /\ UNCHANGED <<instances, doc_extensions, span_extensions>>
    /\ UNCHANGED <<pipeVars, codecVars, bboxVars>>

\* a first instance, and a document handed to it
InitViews ==
    \E instance \in InstanceChoices, d \in ViewDocuments :
        /\ ConvStart(instance.sep, instance.headings, instance.display_table, d)
        /\ instances = <<instance>>
        /\ doc_extensions = SetDocExtensions(<<>>, 1, instance.attrs)
        /\ span_extensions = SetSpanExtensions(<<>>, 1, instance.attrs)
        /\ converted_by = 1
        /\ view_out = None

ViewsNext ==
    \/ NewInstance \/ Call \/ ResultToDoc \/ TextsToDocStep \/ FinishDoc
    \/ ReadPages \/ ReadTables \/ ReadHeading

(***************************************************************************)
(* layout.py: pipe, lines 104-125.  pipe is a generator; each action is    *)
(* one next() on it.  A generator expression over sources calls            *)
(* iter(sources) once: a list gives every generator its own place, an      *)
(* iterator gives the one place it has to both.  convert_all is lazy and   *)
(* takes its input in batches of the converter's batch size.               *)
(***************************************************************************)
MaxSources == 3
MaxBatch == 2

Path(p) == [kind |-> "path", v |-> p]

Bytes(b) == [kind |-> "bytes", v |-> b]

\* _get_source, lines 127-130
_get_source(source) ==
    IF source.kind = "path" THEN source
    ELSE [kind |-> "stream", name |-> "source", v |-> source.v]

\* the Doc of a converted source: self._result_to_doc(result.document)
ConvertedDoc(src) == [doc_of |-> src]

\* next() on a generator over the sources moves the place it reads from
Advance(c, which) ==
    IF single_pass
    THEN [data |-> c[which] + 1, ctx |-> c[which] + 1]
    ELSE [c EXCEPT ![which] = @ + 1]

\* convert_all takes up to n more inputs from the generator data
RECURSIVE PullBatch(_, _, _)
PullBatch(c, n, acc) ==
    IF n = 0 \/ c.data >= Len(sources) THEN [cursor |-> c, items |-> acc]
    ELSE LET element == sources[c.data + 1]
             source == IF as_tuples THEN element[1] ELSE element
         IN  PullBatch(Advance(c, "data"), n - 1,
                       Append(acc, ConvertedDoc(_get_source(source))))

\* next(results)
NextResult ==
    IF pending # <<>> THEN [cursor |-> cursor, items |-> pending]
    ELSE PullBatch(cursor, batch_size, <<>>)

\* lines 114-119: for result, context in zip(results, contexts): yield ...
PipeNextTuples ==
    /\ pipe_pc = "running"
    /\ as_tuples
    /\ LET r == NextResult
       IN  IF r.items = <<>>
           THEN /\ pipe_pc' = "done"
                /\ cursor' = r.cursor
                /\ UNCHANGED <<pending, yielded>>
           ELSE IF r.cursor.ctx >= Len(sources)
           THEN \* contexts is exhausted: zip stops and drops the result
                /\ pipe_pc' = "done"
                /\ cursor' = r.cursor
                /\ pending' = Tail(r.items)
                /\ UNCHANGED yielded
           ELSE /\ yielded' = Append(yielded,
                                     <<Head(r.items), sources[r.cursor.ctx + 1][2]>>)
                /\ cursor' = Advance(r.cursor, "ctx")
                /\ pending' = Tail(r.items)
                /\ UNCHANGED pipe_pc
    /\ UNCHANGED <<sources, single_pass, as_tuples, batch_size>>
    /\ UNCHANGED <<convVars, codecVars, bboxVars, instVars>>

\* lines 121-125: for result in results: yield ...
PipeNextPlain ==
    /\ pipe_pc = "running"
    /\ ~as_tuples
    /\ LET r == NextResult
       IN  IF r.items = <<>>
           THEN /\ pipe_pc' = "done"
                /\ cursor' = r.cursor
                /\ UNCHANGED <<pending, yielded>>
           ELSE /\ yielded' = Append(yielded, Head(r.items))
                /\ cursor' = r.cursor
                /\ pending' = Tail(r.items)
                /\ UNCHANGED pipe_pc
    /\ UNCHANGED <<sources, single_pass, as_tuples, batch_size>>
    /\ UNCHANGED <<convVars, codecVars, bboxVars, instVars>>

PipeNext == PipeNextTuples \/ PipeNextPlain

SourceChoices == {Path("simple.pdf"), Path("simple.docx"), Bytes("pdf")}

ContextChoices == {"pdf", "docx"}

PipeState(srcs, once, tuples, batch, state) ==
    /\ sources = srcs
    /\ single_pass = once
    /\ as_tuples = tuples
    /\ batch_size = batch
    /\ cursor = [data |-> 0, ctx |-> 0]
    /\ pending = <<>>
    /\ yielded = <<>>
    /\ pipe_pc = state

PipeIdle == PipeState(<<>>, FALSE, FALSE, 1, "idle")

(***************************************************************************)
(* util.py: the codec hooks, each called with chain=None.  A dict with     *)
(* string keys is a function; a dict whose order is observed (the export   *)
(* of a DataFrame) is a sequence of <<key, value>> pairs.                  *)
(***************************************************************************)
MaxCodecPages == 2
MaxCols == 3

TYPE_ATTR == "__type__"

OBJ_TYPES == {"SpanLayout", "DocLayout", "PageLayout"}

FieldNames(cls) ==
    CASE cls = "SpanLayout" -> {"x", "y", "width", "height", "page_no"}
      [] cls = "PageLayout" -> {"page_no", "width", "height"}
      [] cls = "DocLayout" -> {"pages"}

IsInstance(obj, classes) == "cls" \in DOMAIN obj /\ obj.cls \in classes

IsDict(obj) == "cls" \notin DOMAIN obj

Fields(obj) == [k \in DOMAIN obj \ {"cls"} |-> obj[k]]

DictPut(d, key, v) == [k \in DOMAIN d \cup {key} |-> IF k = key THEN v ELSE d[k]]

DictPop(d, key) == [k \in DOMAIN d \ {key} |-> d[k]]

\* dataclasses.asdict: the fields, dataclasses in a list field as dicts too
asdict(obj) ==
    IF obj.cls = "DocLayout"
    THEN [pages |-> [i \in 1..Len(obj.pages) |-> Fields(obj.pages[i])]]
    ELSE Fields(obj)

\* cls(**data): the keys must be the fields of the class
Construct(cls, data) ==
    IF DOMAIN data = FieldNames(cls)
    THEN Ok([k \in DOMAIN data \cup {"cls"} |-> IF k = "cls" THEN cls ELSE data[k]])
    ELSE Raise("TypeError")

\* PageLayout.from_dict, SpanLayout.from_dict and DocLayout.from_dict
from_dict_no_pages(cls, data) ==
    IF cls = "DocLayout" THEN Ok(DocLayout(<<>>)) ELSE Construct(cls, data)

from_dict(cls, data) ==
    IF cls = "DocLayout"
    THEN LET ps == IF "pages" \in DOMAIN data THEN data["pages"] ELSE <<>>
             made == [i \in 1..Len(ps) |-> Construct("PageLayout", ps[i])]
         IN  IF \E i \in 1..Len(ps) : made[i].err # "" THEN Raise("TypeError")
             ELSE Ok(DocLayout([i \in 1..Len(ps) |-> made[i].val]))
    ELSE Construct(cls, data)

encode_obj(obj) ==
    IF IsInstance(obj, OBJ_TYPES)
    THEN DictPut(asdict(obj), TYPE_ATTR, obj.cls)
    ELSE obj

decode_obj(obj) ==
    IF IsDict(obj) /\ TYPE_ATTR \in DOMAIN obj /\ obj[TYPE_ATTR] \in OBJ_TYPES
    THEN from_dict(obj[TYPE_ATTR], DictPop(obj, TYPE_ATTR))
    ELSE Ok(obj)

\* f"{col_name} ({seen_cols[col_name]})"
Renamed(col_name, n) == col_name \o " (" \o ToString(n) \o ")"

\* _ensure_unique_columns, the loop of lines 45-51
RECURSIVE NewColumns(_, _, _)
NewColumns(columns, seen_cols, new_cols) ==
    IF columns = <<>> THEN new_cols
    ELSE LET col_name == Head(columns)
         IN  IF ~DictHas(seen_cols, col_name)
             THEN NewColumns(Tail(columns), DictSet(seen_cols, col_name, 1),
                             Append(new_cols, col_name))
             ELSE LET n == DictGet(seen_cols, col_name) + 1
                  IN  NewColumns(Tail(columns), DictSet(seen_cols, col_name, n),
                                 Append(new_cols, Renamed(col_name, n)))

_ensure_unique_columns(df) == [df EXCEPT !.columns = NewColumns(df.columns, <<>>, <<>>)]

\* DataFrame.to_dict(): column by column, a repeated name keeps its first
\* place and its last column
to_dict(df) ==
    DictFromPairs([i \in 1..Len(df.columns) |-> <<df.columns[i], df.data[i]>>], <<>>)

\* DataFrame(data) of a dict of columns
DataFrameOf(data) ==
    DataFrame([i \in 1..Len(data) |-> data[i][1]], [i \in 1..Len(data) |-> data[i][2]])

encode_df(obj) ==
    IF IsInstance(obj, {"DataFrame"})
    THEN DictPut([data |-> to_dict(_ensure_unique_columns(obj))], TYPE_ATTR, "DataFrame")
    ELSE obj

decode_df(obj) ==
    IF IsDict(obj) /\ TYPE_ATTR \in DOMAIN obj /\ obj[TYPE_ATTR] = "DataFrame"
    THEN DataFrameOf(obj["data"])
    ELSE obj

\* the hooks as steps: a value is encoded by one hook, the result decoded by one
EncodeObj ==
    /\ applied = <<>>
    /\ encoded' = Some(encode_obj(value))
    /\ applied' = <<"encode_obj">>
    /\ UNCHANGED <<value, original, decoded>>
    /\ UNCHANGED <<convVars, pipeVars, bboxVars, instVars>>

DecodeObj ==
    /\ Len(applied) = 1
    /\ decoded' = Some(decode_obj(encoded[1]))
    /\ applied' = Append(applied, "decode_obj")
    /\ UNCHANGED <<value, original, encoded>>
    /\ UNCHANGED <<convVars, pipeVars, bboxVars, instVars>>

\* encode_df renames the columns of the DataFrame it is given (line 52)
EncodeDf ==
    /\ applied = <<>>
    /\ encoded' = Some(encode_df(value))
    /\ value' = IF IsInstance(value, {"DataFrame"})
                THEN _ensure_unique_columns(value) ELSE value
    /\ applied' = <<"encode_df">>
    /\ UNCHANGED <<original, decoded>>
    /\ UNCHANGED <<convVars, pipeVars, bboxVars, instVars>>

DecodeDf ==
    /\ Len(applied) = 1
    /\ decoded' = Some(Ok(decode_df(encoded[1])))
    /\ applied' = Append(applied, "decode_df")
    /\ UNCHANGED <<value, original, encoded>>
    /\ UNCHANGED <<convVars, pipeVars, bboxVars, instVars>>

CodecNext == EncodeObj \/ DecodeObj \/ EncodeDf \/ DecodeDf

SpanLayoutChoices ==
    {SpanLayout(10, y, 30, h, p) : y \in {0, 20}, h \in {0, 40}, p \in {1, 2}}

PageLayoutChoices ==
    {PageLayout(p, w, h) : p \in {1, 2}, w \in {0, 500}, h \in {0, 600}}

DocLayoutChoices == {DocLayout(ps) : ps \in SeqsUpTo(PageLayoutChoices, MaxCodecPages)}

ColumnNames == {"a", "a (2)", "b"}

DataFrameChoices ==
    UNION {{DataFrame(cols, data) : cols \in [1..n -> ColumnNames],
                                    data \in [1..n -> {1, 2}]} : n \in 0..MaxCols}

\* dicts that are nobody's encoded form
OtherDicts == {[data |-> 1], DictPut([data |-> 1], TYPE_ATTR, "Other")}

CodecState(v) ==
    /\ value = v
    /\ original = v
    /\ encoded = None
    /\ decoded = None
    /\ applied = <<>>

CodecIdle == CodecState(None)

(***************************************************************************)
(* get_bounding_box as a step: the arguments are floats.                   *)
(***************************************************************************)
GetBoundingBox ==
    /\ rect = None
    /\ rect' = Some(get_bounding_box(bbox, page_height))
    /\ UNCHANGED <<bbox, page_height>>
    /\ UNCHANGED <<convVars, pipeVars, codecVars, instVars>>

Floats(samples) == {n \in samples : IsFloat(n)}

BBoxState(box, h) ==
    /\ bbox = box
    /\ page_height = h
    /\ rect = None

BBoxIdle == BBoxState(BoxA, PageSize.height)

ConvIdle ==
    /\ ConvStart(None, DefaultHeadings, DisplayStr(TABLE_PLACEHOLDER),
                 [nodes |-> <<>>, pages |-> <<>>])

vars == <<convVars, pipeVars, codecVars, bboxVars, instVars>>

(***************************************************************************)
(* The specifications.                                                     *)
(***************************************************************************)
StartAlign == InitAlign /\ PipeIdle /\ CodecIdle /\ BBoxIdle /\ SingleInstance

SpecAlign == StartAlign /\ [][ConvNext]_vars

StartHeading == InitHeading /\ PipeIdle /\ CodecIdle /\ BBoxIdle /\ SingleInstance

SpecHeading == StartHeading /\ [][ConvNext]_vars

StartLayout == InitLayout /\ PipeIdle /\ CodecIdle /\ BBoxIdle /\ SingleInstance

SpecLayout == StartLayout /\ [][ConvNext]_vars

StartSelect == InitSelect /\ PipeIdle /\ CodecIdle /\ BBoxIdle /\ SingleInstance

SpecSelect == StartSelect /\ [][ConvNext]_vars

StartViews == InitViews /\ PipeIdle /\ CodecIdle /\ BBoxIdle

SpecViews == StartViews /\ [][ViewsNext]_vars

InitPipe ==
    /\ ConvIdle /\ CodecIdle /\ BBoxIdle /\ SingleInstance
    /\ \E once \in BOOLEAN, batch \in 1..MaxBatch :
          \/ \E srcs \in SeqsUpTo(SourceChoices \X ContextChoices, MaxSources) :
                 PipeState(srcs, once, TRUE, batch, "running")
          \/ \E srcs \in SeqsUpTo(SourceChoices, MaxSources) :
                 PipeState(srcs, once, FALSE, batch, "running")

SpecPipe == InitPipe /\ [][PipeNext]_vars

InitCodec ==
    /\ ConvIdle /\ PipeIdle /\ BBoxIdle /\ SingleInstance
    /\ \E v \in SpanLayoutChoices \cup PageLayoutChoices \cup DocLayoutChoices
                \cup DataFrameChoices \cup OtherDicts : CodecState(v)

SpecCodec == InitCodec /\ [][CodecNext]_vars

InitBBox ==
    /\ ConvIdle /\ PipeIdle /\ CodecIdle /\ SingleInstance
    /\ \E l \in Floats({0, 100}), r \in Floats({300, 400}),
          t \in Floats({0, 3, 50, 200, 250, 400, 800, 950, 1000}),
          b \in Floats({0, 1, 50, 200, 250, 400, 800, 950, 1000}),
          origin \in {"BOTTOMLEFT", "TOPLEFT"},
          h \in Floats({792, 1000}) :
          BBoxState(BoundingBox(l, t, r, b, origin), h)

SpecBBox == InitBBox /\ [][GetBoundingBox]_vars

(***************************************************************************)
(* The properties.                                                         *)
(***************************************************************************)
\* the words of the tokens of a text
TokenWords(text) == [i \in 1..Len(Tokenize(text)) |-> Tokenize(text)[i].text]

\* the words of the tokens of all inputs, in order, without any separator
RECURSIVE ItemWords(_)
ItemWords(ins) ==
    IF ins = <<>> THEN <<>> ELSE TokenWords(Head(ins)[1]) \o ItemWords(Tail(ins))

\* the words the spans cover, span after span
RECURSIVE SpanWords(_, _)
SpanWords(ws, spans) ==
    IF spans = <<>> THEN <<>>
    ELSE SubSeq(ws, Head(spans).start + 1, Head(spans).end) \o SpanWords(ws, Tail(spans))

\* the positions (from 1) of the words a span covers
Covered(span) == (span.start + 1)..span.end

\* the text of the tokens from..to of a token stream: each word, and a space
\* after it when its flag is set; without the space after the last with strip
RECURSIVE TextOf(_, _, _, _, _)
TextOf(ws, sps, from, to, strip) ==
    IF from > to THEN ""
    ELSE ws[from] \o (IF sps[from] /\ ~(strip /\ from = to) THEN " " ELSE "")
         \o TextOf(ws, sps, from + 1, to, strip)

\* Span.text of the tokens of a text taken alone
ItemText(text) ==
    TextOf(TokenWords(text),
           [i \in 1..Len(Tokenize(text)) |-> Tokenize(text)[i].whitespace],
           1, Len(Tokenize(text)), TRUE)

\* the number of tokens of the first n inputs
RECURSIVE TokensBefore(_, _)
TokensBefore(ins, n) ==
    IF n = 0 THEN 0 ELSE TokensBefore(ins, n - 1) + Len(Tokenize(ins[n][1]))

\* C1: the spans of a converted document lie within the token stream, follow
\* each other in source order without overlap, and cover, in order, exactly
\* the tokens of the items: every token they leave out is an injected
\* separator, one per item when a separator is configured and none otherwise.
C1_SpansPartitionTokens ==
    pc = "done" =>
        LET spans == doc.spans
        IN  /\ Len(spans) = Len(inputs)
            /\ Len(doc.words) = Len(doc.spaces)
            /\ \A i \in 1..Len(spans) :
                   /\ 0 <= spans[i].start
                   /\ spans[i].start <= spans[i].end
                   /\ spans[i].end <= Len(doc.words)
            /\ \A i \in 1..(Len(spans) - 1) : spans[i].end <= spans[i + 1].start
            /\ SpanWords(doc.words, spans) = ItemWords(inputs)
            /\ Len(doc.words)
                   = Len(ItemWords(inputs)) + (IF Truthy(sep) THEN Len(inputs) ELSE 0)
            /\ \A p \in 1..Len(doc.words) :
                   (\A i \in 1..Len(spans) : p \notin Covered(spans[i]))
                       => Truthy(sep) /\ doc.words[p] = sep[1]

C1_Witness ==
    /\ pc = "done"
    /\ Truthy(sep)
    /\ Len(doc.spans) >= 3
    /\ \E i \in 1..Len(doc.spans) : doc.spans[i].end - doc.spans[i].start = 2
    /\ \E i \in 1..Len(doc.spans) : doc.spans[i].end = doc.spans[i].start

\* the position (from 1) of the separator injected after the i-th input
InjectedAt(ins, i) == TokensBefore(ins, i) + i

\* C2: with a non-empty separator, no span covers the position of an injected
\* separator; the tokens of every item are followed by exactly one separator
\* token, after which the next span starts or the stream ends; the flag of
\* the item's last token and the flag of the separator are false, so that in
\* the text the item's text is followed at once by the separator.
C2_SeparatorAfterEveryItem ==
    (pc = "done" /\ Truthy(sep)) =>
        LET spans == doc.spans
        IN  \A i \in 1..Len(spans) :
                /\ \A j \in 1..Len(spans) : InjectedAt(inputs, j) \notin Covered(spans[i])
                /\ spans[i].end + 1 = InjectedAt(inputs, i)
                /\ doc.words[spans[i].end + 1] = sep[1]
                /\ doc.spaces[spans[i].end + 1] = FALSE
                /\ IF i < Len(spans) THEN spans[i + 1].start = spans[i].end + 1
                   ELSE Len(doc.words) = spans[i].end + 1
                /\ spans[i].end > spans[i].start => doc.spaces[spans[i].end] = FALSE
                /\ TextOf(doc.words, doc.spaces, spans[i].start + 1, spans[i].end + 1,
                          FALSE)
                       = ItemText(inputs[i][1]) \o sep[1]

C2_Witness ==
    /\ pc = "done"
    /\ Truthy(sep)
    /\ Len(doc.spans) >= 2
    /\ inputs[1][1] = "b "
    /\ inputs[2][1] = "\n\n"

\* C6: an item whose text has no token is no error, wherever it stands and
\* with or without a separator: the conversion never raises an IndexError,
\* the item gets an empty span at the cursor, and the flags of the tokens of
\* the other items are their own but for the false flag before a separator.
C6_ZeroTokenItemIsNoError ==
    /\ error # "IndexError"
    /\ pc = "done" =>
           \A i \in 1..Len(doc.spans) :
               LET toks == Tokenize(inputs[i][1])
                   start == TokensBefore(inputs, i - 1)
                                + (IF Truthy(sep) THEN i - 1 ELSE 0)
               IN  /\ doc.spans[i].start = start
                   /\ doc.spans[i].end = start + Len(toks)
                   /\ \A k \in 1..Len(toks) :
                          doc.spaces[start + k]
                              = (toks[k].whitespace /\ ~(Truthy(sep) /\ k = Len(toks)))

\* the Doc pipe should yield at place i
ExpectedOutput(i) ==
    IF as_tuples
    THEN <<ConvertedDoc(_get_source(sources[i][1])), sources[i][2]>>
    ELSE ConvertedDoc(_get_source(sources[i]))

\* C3: pipe keeps the order of its input: the i-th output is the conversion
\* of the i-th source, with as_tuples paired with the i-th context, and when
\* pipe ends every source has been yielded once.
C3_PipeKeepsInputOrder ==
    /\ Len(yielded) <= Len(sources)
    /\ \A i \in 1..Len(yielded) : yielded[i] = ExpectedOutput(i)
    /\ pipe_pc = "done" => Len(yielded) = Len(sources)

SetMax(S) == CHOOSE m \in S : \A n \in S : n <= m

\* C4: get_heading of a span of the group is None when the span's label is a
\* heading label; otherwise it is the span at the largest place of the group
\* before the span's own whose label is a heading label, None without one.
C4_HeadingIsNearestPreceding ==
    heading_out # None =>
        LET i == heading_out[1].index
            before == {j \in 1..(i - 1) : doc.spans[j].label \in headings}
        IN  /\ heading_out[1].span = doc.spans[i]
            /\ heading_out[1].heading =
                   IF doc.spans[i].label \in headings \/ before = {} THEN None
                   ELSE Some(doc.spans[SetMax(before)])

C4_Witness ==
    /\ heading_out # None
    /\ heading_out[1].index = 3
    /\ doc.spans[1].label = "title"
    /\ doc.spans[2].label = "section_header"
    /\ doc.spans[3].label = "text"
    /\ headings = DefaultHeadings
    /\ heading_out[1].heading = Some(doc.spans[2])

\* C5: get_pages does not fail on a converted document with spans whose
\* layout is None: those spans are in no page's list, and every span with a
\* layout is in the list of the page its layout names and of no other page.
C5_GetPagesSkipsSpansWithoutLayout ==
    pages_out # None =>
        /\ pages_out[1].err = ""
        /\ \A i \in 1..Len(doc.spans), k \in 1..Len(pages_out[1].val) :
               LET span == doc.spans[i]
                   entry == pages_out[1].val[k]
               IN  (\E m \in 1..Len(entry[2]) : entry[2][m] = span)
                       <=> (span.layout # None
                            /\ span.layout[1].page_no = entry[1].page_no)

\* the page of the document layout with the number n
LayoutPage(n) ==
    doc.layout[1].pages[CHOOSE k \in 1..Len(doc.layout[1].pages) :
                            doc.layout[1].pages[k].page_no = n]

\* C10: in a converted document the layout of a span is None exactly when its
\* item has no provenance or the page of the first provenance entry has width
\* 0 or height 0; otherwise it is the SpanLayout of the first entry: its page
\* number, and the rectangle of get_bounding_box with that page's height.
C10_LayoutFromFirstProvenance ==
    pc = "done" =>
        \A i \in 1..Len(doc.spans) :
            LET item == span_data[i][1]
                layout == doc.spans[i].layout
                first == item.prov[1]
                page == LayoutPage(first.page_no)
                box == get_bounding_box(first.bbox, page.height)
            IN  /\ layout = None
                       <=> (item.prov = <<>> \/ page.width = 0 \/ page.height = 0)
                /\ layout # None =>
                       layout[1] = SpanLayout(box[1], box[2], box[3], box[4],
                                              first.page_no)

C10_Witness ==
    /\ pc = "done"
    /\ Len(doc.spans) = 2
    /\ Len(span_data[1][1].prov) = 2
    /\ doc.spans[1].layout # None
    /\ doc.spans[1].layout[1].page_no = 2
    /\ span_data[2][1].prov # <<>>
    /\ doc.spans[2].layout = None

\* C7: for a SpanLayout, a PageLayout or a DocLayout with any number of
\* pages, the encoded form has the fields of the value as keys, each with the
\* field's value (a page of a DocLayout as the map of its own fields), and the
\* key "__type__" with the name of the class; decoding it gives a value of
\* the same class equal to the original.
C7_ObjectRoundTrip ==
    (applied # <<>> /\ applied[1] = "encode_obj" /\ IsInstance(original, OBJ_TYPES)) =>
        LET enc == encoded[1]
        IN  /\ DOMAIN enc = FieldNames(original.cls) \cup {TYPE_ATTR}
            /\ enc[TYPE_ATTR] = original.cls
            /\ IF original.cls = "DocLayout"
               THEN /\ Len(enc["pages"]) = Len(original.pages)
                    /\ \A i \in 1..Len(original.pages) :
                           /\ DOMAIN enc["pages"][i] = FieldNames("PageLayout")
                           /\ \A k \in FieldNames("PageLayout") :
                                  enc["pages"][i][k] = original.pages[i][k]
               ELSE \A k \in FieldNames(original.cls) : enc[k] = original[k]
            /\ applied = <<"encode_obj", "decode_obj">> =>
                   /\ decoded[1].err = ""
                   /\ decoded[1].val.cls = original.cls
                   /\ decoded[1].val = original

C7_Witness ==
    /\ applied = <<"encode_obj", "decode_obj">>
    /\ IsInstance(original, {"DocLayout"})
    /\ Len(original.pages) = 2
    /\ original.pages[1] # original.pages[2]
    /\ decoded[1].val = original

Distinct(seq) == \A i, j \in 1..Len(seq) : i # j => seq[i] # seq[j]

\* the name the k-th column with the same name gets: itself for the first,
\* "<name> (<k>)" from the second on
RenamedColumn(columns, i) ==
    LET k == Cardinality({j \in 1..i : columns[j] = columns[i]})
    IN  IF k = 1 THEN columns[i] ELSE Renamed(columns[i], k)

\* C8: encode_df renames the columns of any DataFrame from left to right, the
\* first of a name unchanged and the k-th to "<name> (<k>)", after which all
\* column names differ; decoding the encoded form gives the renamed table,
\* with as many columns, in the same order, with the same values.
C8_UniqueColumnsRoundTrip ==
    (applied # <<>> /\ applied[1] = "encode_df" /\ IsInstance(original, {"DataFrame"})) =>
        /\ value.columns
               = [i \in 1..Len(original.columns) |-> RenamedColumn(original.columns, i)]
        /\ value.data = original.data
        /\ Distinct(value.columns)
        /\ applied = <<"encode_df", "decode_df">> =>
               /\ Len(decoded[1].val.columns) = Len(original.columns)
               /\ decoded[1].val = value

\* the box with the extent of a bottom-left box, measured from the top edge
AsTopLeft(box, h) ==
    BoundingBox(box.l, FloatSub(h, box.t), box.r, FloatSub(h, box.b), "TOPLEFT")

\* (x, y, width, height) as the claim gives them, each difference a float
\* subtraction
StatedRectangle(box, h) ==
    IF box.coord_origin = "BOTTOMLEFT"
    THEN <<box.l, FloatSub(h, box.t), FloatSub(box.r, box.l), FloatSub(box.t, box.b)>>
    ELSE <<box.l, box.t, FloatSub(box.r, box.l), FloatSub(box.b, box.t)>>

\* a box of a page of height h measured from the bottom edge
BottomLeftOnPage(box, h) ==
    /\ box.coord_origin = "BOTTOMLEFT"
    /\ box.b <= box.t
    /\ box.t <= h

\* C9 as stated: the result is (left, page_height - top, right - left,
\* top - bottom) for a bottom-left origin and (left, top, right - left,
\* bottom - top) for a top-left origin; a bottom-left box and the top-left box
\* (top = page_height - t, bottom = page_height - b) with the same left and
\* right give the same rectangle; the box (100, 200, 50, 400) of a page of
\* height 1000 gives (100, 800, 300, 150).
C9_SameRectangleInBothOrigins ==
    rect # None =>
        /\ rect[1] = StatedRectangle(bbox, page_height)
        /\ BottomLeftOnPage(bbox, page_height) =>
               get_bounding_box(AsTopLeft(bbox, page_height), page_height) = rect[1]
        /\ (bbox = BoundingBox(100, 200, 400, 50, "BOTTOMLEFT") /\ page_height = 1000) =>
               rect[1] = <<100, 800, 300, 150>>

\* C9 as amended: the same, but the two boxes give the same x, y and width,
\* and the same height when page_height - t and page_height - b are exact.
C9_SameRectangleWhenExact ==
    rect # None =>
        /\ rect[1] = StatedRectangle(bbox, page_height)
        /\ BottomLeftOnPage(bbox, page_height) =>
               LET other == get_bounding_box(AsTopLeft(bbox, page_height), page_height)
               IN  /\ other[1] = rect[1][1]
                   /\ other[2] = rect[1][2]
                   /\ other[3] = rect[1][3]
                   /\ (IsFloat(page_height - bbox.t) /\ IsFloat(page_height - bbox.b))
                          => other[4] = rect[1][4]
        /\ (bbox = BoundingBox(100, 200, 400, 50, "BOTTOMLEFT") /\ page_height = 1000) =>
               rect[1] = <<100, 800, 300, 150>>

C9_Witness ==
    /\ rect # None
    /\ BottomLeftOnPage(bbox, page_height)
    /\ bbox.b < bbox.t
    /\ bbox.t < page_height
    /\ IsFloat(page_height - bbox.t)
    /\ IsFloat(page_height - bbox.b)
    /\ rect[1][4] = bbox.t - bbox.b
    /\ rect[1][2] = page_height - bbox.t

\* the page numbers of the pages of the document layout
LayoutPageNumbers ==
    {doc.layout[1].pages[k].page_no : k \in 1..Len(doc.layout[1].pages)}

\* the page numbers the upstream document lists
DocumentPageNumbers ==
    {document.pages[k].page_no : k \in 1..Len(document.pages)}

\* C11: in a converted document every page number of a span's layout other
\* than None is the page_no of a PageLayout of the document layout, and
\* get_pages never fails on a missing page key; a document with a selected
\* item whose first provenance entry names a page the document does not list
\* is never converted.
C11_SpanPagesExist ==
    /\ pc = "done" =>
           /\ \A i \in 1..Len(doc.spans) :
                  doc.spans[i].layout # None
                      => doc.spans[i].layout[1].page_no \in LayoutPageNumbers
           /\ \A i \in 1..Len(inputs) :
                  inputs[i][2].prov # <<>>
                      => inputs[i][2].prov[1].page_no \in DocumentPageNumbers
    /\ pages_out # None => pages_out[1].err # "KeyError"

C11_Witness ==
    /\ pc = "done"
    /\ Len(doc.spans) = 2
    /\ doc.spans[1].layout # None
    /\ doc.spans[2].layout # None
    /\ doc.spans[1].layout[1].page_no = 2
    /\ doc.spans[2].layout[1].page_no = 1
    /\ span_data[1][1].prov = <<Prov(2, BoxB), Prov(1, BoxA)>>
    /\ pages_out # None
    /\ pages_out[1].err = ""

\* the places, in reading order, of the nodes that are text items with text
\* or table items
SelectedPlaces ==
    {i \in 1..Len(document.nodes) :
        \/ document.nodes[i].kind = "table"
        \/ document.nodes[i].kind = "text" /\ document.nodes[i].text # ""}

\* the k-th of the selected nodes
SelectedNode(k) ==
    document.nodes[CHOOSE i \in SelectedPlaces :
                      Cardinality({j \in SelectedPlaces : j <= i}) = k]

\* the string a selected node is tokenized as
SelectedText(node) ==
    IF node.kind = "text" THEN node.text
    ELSE IF display_table.callable THEN CallDisplay(display_table.value, node.df[1])
    ELSE display_table.value

\* the spans of a converted document are those of the selected nodes
SpansOfSelectedItems ==
    /\ Len(doc.spans) = Cardinality(SelectedPlaces)
    /\ \A k \in 1..Len(doc.spans) :
           LET span == doc.spans[k]
               node == SelectedNode(k)
           IN  /\ span.label = node.label
               /\ SubSeq(doc.words, span.start + 1, span.end)
                      = TokenWords(SelectedText(node))
               /\ node.kind = "table" => span.data = node.df
               /\ node.kind = "text" => span.data = None
               /\ span.data # None => span.label \in TABLE_ITEM_LABELS

\* C12: _result_to_doc gives a document with exactly one span per selected
\* item, in reading order: a text item with text gives a span over the tokens
\* of its text, a table item a span over the tokens of the display string (the
\* placeholder, or the caller's function of the table export) with the table
\* export as its data; text items without text and other nodes give no span;
\* the label of a span is its item's, and only spans with a table label carry
\* data.
C12_OneSpanPerSelectedItem ==
    /\ pc # "raised"
    /\ pc = "done" => SpansOfSelectedItems

\* C13: get_pages returns one (PageLayout, spans) entry per page of the
\* document layout, the entries in ascending page number in whatever order
\* the upstream document lists its pages, and in every entry the spans of
\* that page in the order they have in the span group.
C13_PagesAscending ==
    (pages_out # None /\ pages_out[1].err = "") =>
        LET out == pages_out[1].val
        IN  /\ Len(out) = Len(doc.layout[1].pages)
            /\ \A n \in 1..Len(doc.layout[1].pages) :
                   \E k \in 1..Len(out) : out[k][1] = doc.layout[1].pages[n]
            /\ \A k, l \in 1..Len(out) : k < l => out[k][1].page_no < out[l][1].page_no
            /\ \A k \in 1..Len(out) :
                   \A a, b \in 1..Len(out[k][2]) :
                       a < b => out[k][2][a].id < out[k][2][b].id

\* the derived attribute as the method of the converting instance gives it
ViewOfConverter(attr, index) ==
    IF attr = "pages" THEN get_pages_of(converted_by)
    ELSE IF attr = "tables" THEN get_tables_of(converted_by)
    ELSE get_heading_of(converted_by, doc.spans[index])

\* C14: after any sequence of constructions and conversions, the heading,
\* pages and tables attributes read on a document are those of the instance
\* that converted it, with its heading labels and its attribute names: the
\* construction of another instance changes none of them.
C14_ViewsOfConvertingInstance ==
    view_out # None =>
        view_out[1].result = ViewOfConverter(view_out[1].attr, view_out[1].index)

====
